---- MODULE Spec2Model ----
(***************************************************************************)
(* Model of scripts/clean_and_tag_m3u.py: the line normalizer, the EXTINF  *)
(* attribute parser, the section classifier, the rewrite loop of main()    *)
(* and the optional URL check.                                             *)
(*                                                                         *)
(* A Python string is a sequence of tokens.  A token is a chunk of         *)
(* characters that every regular expression of the program treats as a     *)
(* unit: a single separator character (space, comma, quote, equals sign,   *)
(* hyphen) or a run of characters without separators.  The empty string is *)
(* <<>>.  The vocabulary is chosen so that no keyword of SECTION_KEYWORDS  *)
(* straddles two tokens.  Inside a token, [I.] stands for the character    *)
(* U+0130 (capital I with dot above) and [i] for U+0131 (dotless i).       *)
(***************************************************************************)
EXTENDS Integers, Sequences, FiniteSets, TLC

\* Longest input file, in lines.
MaxLen == 3

\* Python's None, distinct from every string and from the empty string.
None == <<"<None>">>

\* Python truthiness of an Optional[str].
Truthy(v) == v # None /\ v # <<>>

\* a or b, for Optional[str] operands.
Or(a, b) == IF Truthy(a) THEN a ELSE b

----------------------------------------------------------------------------
\* Character classes over tokens.

\* str.strip() / \s: whitespace characters.
WS == {" ", "\n", "\r"}

\* Tokens whose first character is '#'.
HashTok == {"#EXTINF", "#extinf", "#EXTM3U", "#extm3u", "#c"}

\* Tokens made of \w characters only (Unicode letters, digits, underscore).
WordTok == {"A", "B", "x", "u1", "tvg", "id", "name", "logo", "group",
            "title", "Spor", "Sinema", "Kanal[i]", "Belgesel", "Yedek",
            "filmler", "DEFAULT", "S[I.]NEMALAR", "F[I.]LMLER", "BELGESEL",
            "YEDEK", "unknown", "Kanal", "httpxsinema"}

\* str.upper() of one token (first tokens of lines and group names).
UpperTok(t) ==
    CASE t = "#extinf" -> "#EXTINF"
      [] t = "#extm3u" -> "#EXTM3U"
      [] t = "#c"      -> "#C"
      [] t = "Spor"    -> "SPOR"
      [] t = "x"       -> "X"
      [] t = "u1"      -> "U1"
      [] OTHER         -> t

Upper(s) == [p \in DOMAIN s |-> UpperTok(s[p])]

\* s.startswith(tok) for a one-token prefix.
StartsWith(s, tok) == Len(s) > 0 /\ s[1] = tok

\* s.startswith('#')
StartsWithHash(s) == Len(s) > 0 /\ s[1] \in HashTok

RECURSIVE RStripSet(_, _)
\* str.rstrip(chars)
RStripSet(s, chars) ==
    IF Len(s) > 0 /\ s[Len(s)] \in chars
    THEN RStripSet(SubSeq(s, 1, Len(s) - 1), chars)
    ELSE s

RECURSIVE LStripSet(_, _)
\* str.lstrip(chars)
LStripSet(s, chars) ==
    IF Len(s) > 0 /\ s[1] \in chars
    THEN LStripSet(Tail(s), chars)
    ELSE s

\* str.strip()
Strip(s) == LStripSet(RStripSet(s, WS), WS)

----------------------------------------------------------------------------
\* sanitize_id

\* Characters outside [A-Za-z0-9._-] only.
SanRemoved == {",", "\"", "=", ":", "/", "!"}

\* re.sub(r"[^A-Za-z0-9._-]", '', tok) of the tokens it changes.
SanTok(t) ==
    CASE t \in SanRemoved -> <<>>
      [] t = "Kanal[i]" -> <<"Kanal">>
      [] t = "S[I.]NEMALAR" -> <<"SNEMALAR">>
      [] t = "F[I.]LMLER" -> <<"FLMLER">>
      [] t = "7/24" -> <<"724">>
      [] t = ":-1" -> <<"-1">>
      [] t = "http://x/sinema" -> <<"httpxsinema">>
      [] t = "https://i.hizliresim.com/i21k4te.png"
           -> <<"httpsi.hizliresim.comi21k4te.png">>
      [] t = "https://upload.wikimedia.org/wikipedia/commons/1/1b/Documentary_icon.png"
           -> <<"httpsupload.wikimedia.orgwikipediacommons11bDocumentary_icon.png">>
      [] t \in HashTok -> <<>>
      [] OTHER -> <<t>>

RECURSIVE SubSpaces(_)
\* re.sub(r"\s+", '.', s)
SubSpaces(s) ==
    IF s = <<>> THEN <<>>
    ELSE IF s[1] \in WS
         THEN <<".">> \o SubSpaces(LStripSet(s, WS))
         ELSE <<s[1]>> \o SubSpaces(Tail(s))

RECURSIVE SubUnsafe(_)
\* re.sub(r"[^A-Za-z0-9._-]", '', s)
SubUnsafe(s) ==
    IF s = <<>> THEN <<>> ELSE SanTok(s[1]) \o SubUnsafe(Tail(s))

sanitize_id(name) ==
    LET s == SubUnsafe(SubSpaces(Strip(name)))
    IN  IF s = <<>> THEN <<"unknown">> ELSE s

----------------------------------------------------------------------------
\* normalize_lines

RECURSIVE normalize_scan(_, _, _)
\* The for loop of normalize_lines: out and prev_blank after the lines left.
normalize_scan(ls, out, prev_blank) ==
    IF ls = <<>> THEN out
    ELSE LET s == RStripSet(RStripSet(ls[1], {"\n"}), {"\r"})
         IN  IF Strip(s) = <<>>
             THEN normalize_scan(Tail(ls),
                                 IF ~prev_blank THEN Append(out, <<>>) ELSE out,
                                 TRUE)
             ELSE normalize_scan(Tail(ls), Append(out, Strip(s)), FALSE)

\* normalize_lines without the loop that pops trailing blank lines.
trim_trailing_blank_keep(out) == out

RECURSIVE trim_trailing_blank(_)
\* while out and out[-1] == '': out.pop()
trim_trailing_blank(out) ==
    IF Len(out) > 0 /\ out[Len(out)] = <<>>
    THEN trim_trailing_blank(SubSeq(out, 1, Len(out) - 1))
    ELSE out

normalize_lines(ls) == trim_trailing_blank(normalize_scan(ls, <<>>, FALSE))

----------------------------------------------------------------------------
\* Static tables.

LogoCommon == <<"https://i.hizliresim.com/i21k4te.png">>

LogoDocumentary ==
    <<"https://upload.wikimedia.org/wikipedia/commons/1/1b/Documentary_icon.png">>

\* DEFAULT_LOGOS: group name -> logo URL.
DEFAULT_LOGOS ==
    [g \in {<<"S[I.]NEMALAR">>, <<"F[I.]LMLER">>, <<"F[I.]LM">>, <<"BELGESEL">>,
            <<"YEDEK">>, <<"7/24">>, <<"DEFAULT">>}
       |-> IF g = <<"BELGESEL">> THEN LogoDocumentary ELSE LogoCommon]

\* DEFAULT_LOGOS.get(k, DEFAULT_LOGOS['DEFAULT'])
logo_for(k) ==
    IF k \in DOMAIN DEFAULT_LOGOS THEN DEFAULT_LOGOS[k]
    ELSE DEFAULT_LOGOS[<<"DEFAULT">>]

\* SECTION_KEYWORDS, in list order.  rx is the set of vocabulary tokens in
\* which the compiled pattern finds a match (case-insensitively).
SECTION_KEYWORDS ==
    << [key |-> <<"S[I.]NEMALAR">>,
        rx  |-> {"Sinema", "filmler", "S[I.]NEMALAR", "F[I.]LMLER",
                 "http://x/sinema", "httpxsinema"}],
       [key |-> <<"BELGESEL">>,
        rx  |-> {"Belgesel", "BELGESEL",
                 "https://upload.wikimedia.org/wikipedia/commons/1/1b/Documentary_icon.png",
                 "httpsupload.wikimedia.orgwikipediacommons11bDocumentary_icon.png"}],
       [key |-> <<"YEDEK">>, rx |-> {"Yedek", "YEDEK"}],
       [key |-> <<"7/24">>,  rx |-> {"7/24"}],
       [key |-> <<"F[I.]LMLER">>, rx |-> {"filmler", "F[I.]LMLER"}] >>

\* rx.search(title)
rx_search(rx, title) == \E p \in DOMAIN title : title[p] \in rx

----------------------------------------------------------------------------
\* parse_extinf_attrs

\* Least index >= p of a token of the set toks in s, or 0.
IndexFrom(s, p, toks) ==
    IF \E q \in p..Len(s) : s[q] \in toks
    THEN CHOOSE q \in p..Len(s) :
            s[q] \in toks /\ \A r \in p..(q - 1) : s[r] \notin toks
    ELSE 0

\* Positions e >= p of an '=' that ends a match candidate of ATTR_RE:
\* a word character before it, '="' at it, and a closing quote later on.
AttrEq(s, p) ==
    { e \in (p + 1)..(Len(s) - 2) :
        /\ s[e] = "="
        /\ s[e + 1] = "\""
        /\ s[e - 1] \in WordTok
        /\ IndexFrom(s, e + 2, {"\""}) # 0 }

\* Start of the maximal run of \w characters that ends at e - 1, not before p.
KeyStart(s, p, e) ==
    CHOOSE b \in p..(e - 1) :
        /\ \A r \in b..(e - 1) : s[r] \in WordTok
        /\ b = p \/ s[b - 1] \notin WordTok

RECURSIVE findall(_, _)
\* ATTR_RE.findall(line), scanning from position p: (key, value) pairs.
findall(s, p) ==
    IF AttrEq(s, p) = {} THEN <<>>
    ELSE LET e == CHOOSE x \in AttrEq(s, p) : \A y \in AttrEq(s, p) : x <= y
             q == IndexFrom(s, e + 2, {"\""})
         IN  << <<SubSeq(s, KeyStart(s, p, e), e - 1), SubSeq(s, e + 2, q - 1)>> >>
             \o findall(s, q + 1)

RECURSIVE dict(_)
\* dict(pairs): a later pair overrides an earlier one with the same key.
dict(pairs) ==
    IF pairs = <<>> THEN [k \in {} |-> <<>>]
    ELSE LET n == Len(pairs)
         IN  (pairs[n][1] :> pairs[n][2]) @@ dict(SubSeq(pairs, 1, n - 1))

\* EXTINF_RE.match(line): the title group, or None without a match.
EXTINF_RE_title(line) ==
    IF /\ Len(line) > 0
       /\ UpperTok(line[1]) = "#EXTINF"
       /\ IndexFrom(line, 2, {","}) # 0
    THEN SubSeq(line, IndexFrom(line, 2, {","}) + 1, Len(line))
    ELSE None

parse_extinf_attrs(line) ==
    [attrs |-> dict(findall(line, 1)),
     title |-> IF EXTINF_RE_title(line) # None
               THEN Strip(EXTINF_RE_title(line)) ELSE <<>>]

\* attrs.get(k)
get(attrs, k) == IF k \in DOMAIN attrs THEN attrs[k] ELSE None

\* attrs.setdefault(k, v)
setdefault(attrs, k, v) == IF k \in DOMAIN attrs THEN attrs ELSE (k :> v) @@ attrs

\* attrs[k] = v
setitem(attrs, k, v) == (k :> v) @@ attrs

TVG_ID      == <<"tvg", "-", "id">>
TVG_NAME    == <<"tvg", "-", "name">>
TVG_LOGO    == <<"tvg", "-", "logo">>
GROUP_TITLE == <<"group", "-", "title">>

----------------------------------------------------------------------------
\* build_extinf

RECURSIVE build_parts(_, _)
\* The for loop of build_extinf over the keys ks left: the list parts.
build_parts(attrs, ks) ==
    IF ks = <<>> THEN <<>>
    ELSE LET v == get(attrs, ks[1])
         IN  (IF Truthy(v)
              THEN << ks[1] \o <<"=", "\"">> \o v \o <<"\"">> >>
              ELSE <<>>)
             \o build_parts(attrs, Tail(ks))

RECURSIVE join(_, _)
\* sep.join(parts)
join(sep, parts) ==
    IF parts = <<>> THEN <<>>
    ELSE IF Len(parts) = 1 THEN parts[1]
    ELSE parts[1] \o sep \o join(sep, Tail(parts))

build_extinf(attrs, title) ==
    <<"#EXTINF", ":-1", " ">>
    \o join(<<" ">>, build_parts(attrs, <<TVG_ID, TVG_NAME, TVG_LOGO, GROUP_TITLE>>))
    \o <<",">> \o title

----------------------------------------------------------------------------
\* detect_section_from_extinf

RECURSIVE last_match(_, _)
\* A classifier that lets a later keyword override an earlier one.
last_match(kws, title) ==
    IF kws = <<>> THEN None
    ELSE IF last_match(Tail(kws), title) # None THEN last_match(Tail(kws), title)
    ELSE IF rx_search(kws[1].rx, title) THEN kws[1].key
    ELSE None

RECURSIVE first_match(_, _)
\* The for loop over the keywords kws left: the first key whose pattern matches.
first_match(kws, title) ==
    IF kws = <<>> THEN None
    ELSE IF rx_search(kws[1].rx, title) THEN kws[1].key
    ELSE first_match(Tail(kws), title)

detect_section_from_extinf(line) ==
    first_match(SECTION_KEYWORDS, parse_extinf_attrs(line).title)

----------------------------------------------------------------------------
\* The input files: up to MaxLen raw lines, as f.readlines() returns them.

EOL == <<"\n">>

RawLines ==
    { <<"#extm3u", " ", "x">> \o EOL,
      <<"#EXTINF", ":-1", ",", "A">> \o EOL,
      <<"#EXTINF", ":-1", ",">> \o EOL,
      <<"#EXTINF", ":-1", " ", "tvg", "-", "name", "=", "\"", "\"", " ",
        "group", "-", "title", "=", "\"", "Spor", "\"", ",", "B">> \o EOL,
      <<"#EXTINF", ":-1", ",", "A", ",", "B">> \o EOL,
      <<"#extinf", ":-1", ",", "Sinema", " ", "Kanal[i]">> \o EOL,
      <<"#EXTINF", ":-1", ",", "Yedek", " ", "Belgesel">> \o EOL,
      <<"#c">> \o EOL,
      <<" ">> \o EOL,
      <<"#EXTINF", ":-1", ",", "filmler">> \o EOL,
      <<" ", "u1", " ">> \o EOL,
      <<"http://x/sinema">> \o EOL }

RawFiles == UNION { [1..n -> RawLines] : n \in 0..MaxLen }

VARIABLES
    raw,            \* f.readlines()
    lines,          \* normalize_lines(raw)
    out_lines,      \* the rewritten lines
    current_group,  \* category of the last section marker, or None
    i,              \* index of the rewrite loop (1-based)
    entries,        \* (extinf, url) pairs collected by the URL check
    k,              \* index of the scan of out_lines (1-based)
    n,              \* index of the for loop over entries (1-based)
    ok,             \* count of reachable URLs
    bad,            \* (extinf, reason) pairs
    pc,             \* position in main()
    pass,           \* 1: run on the input file, 2: run on the file written by 1
    first_out,      \* out_lines of the first run, once the second has started
    log             \* history: one record per iteration of the rewrite loop

vars == <<raw, lines, out_lines, current_group, i, entries, k, n, ok,
          bad, pc, pass, first_out, log>>

checkVars == <<entries, k, n, ok, bad>>

\* The state after parse_args(), before the input file is opened.
Init ==
    /\ raw = <<>>
    /\ lines = <<>>
    /\ out_lines = <<>>
    /\ current_group = None
    /\ i = 1
    /\ entries = <<>>
    /\ k = 1
    /\ n = 1
    /\ ok = 0
    /\ bad = <<>>
    /\ pc = "open"
    /\ pass = 1
    /\ first_out = <<>>
    /\ log = <<>>

\* raw = f.readlines(), for any input file within the bound.
ReadFile ==
    /\ pc = "open"
    /\ raw' \in RawFiles
    /\ pc' = "read"
    /\ UNCHANGED <<lines, out_lines, current_group, i, checkVars, pass,
                   first_out, log>>

\* line.upper().startswith('#EXTM3U')
is_header(line) == StartsWith(Upper(line), "#EXTM3U")

\* line.upper().startswith('#EXTINF')
is_extinf(line) == StartsWith(Upper(line), "#EXTINF")

\* lines = normalize_lines(raw); out_lines = []; current_group = None; i = 0
Normalize ==
    /\ pc = "read"
    /\ lines' = normalize_lines(raw)
    /\ out_lines' = <<>>
    /\ current_group' = None
    /\ i' = 1
    /\ pc' = "loop"
    /\ UNCHANGED <<raw, checkVars, pass, first_out, log>>

\* A header branch that copies the line.
header_copy(line) == line

\* The line a header line is rewritten to.
header_out(line) == <<"#EXTM3U">>

\* if line.upper().startswith('#EXTM3U'): ...
Header ==
    /\ pc = "loop" /\ i <= Len(lines)
    /\ is_header(lines[i])
    /\ out_lines' = Append(out_lines, header_out(lines[i]))
    /\ i' = i + 1
    /\ log' = Append(log, [kind |-> "header", at |-> i, line |-> lines[i],
                           out |-> header_out(lines[i]), sec |-> None,
                           url |-> None, next |-> i + 1])
    /\ UNCHANGED <<raw, lines, current_group, checkVars, pc, pass, first_out>>

\* The attributes of a section marker after the four setdefault calls.
fill_section(attrs, title, sec) ==
    setdefault(
      setdefault(
        setdefault(
          setdefault(attrs, TVG_NAME, title),
          GROUP_TITLE, sec),
        TVG_LOGO, logo_for(sec)),
      TVG_ID, sanitize_id(title))

\* Whether the line after the section marker at i is copied with it.
section_takes_next(ls, idx) == idx + 1 <= Len(ls) /\ ~is_extinf(ls[idx + 1])

\* if sec: ...
Section ==
    /\ pc = "loop" /\ i <= Len(lines)
    /\ ~is_header(lines[i]) /\ is_extinf(lines[i])
    /\ LET parsed == parse_extinf_attrs(lines[i])
           sec    == detect_section_from_extinf(lines[i])
           ext    == build_extinf(fill_section(parsed.attrs, parsed.title, sec),
                                  parsed.title)
           take   == section_takes_next(lines, i)
       IN  /\ Truthy(sec)
           /\ current_group' = sec
           /\ out_lines' = IF take THEN out_lines \o <<ext, lines[i + 1]>>
                           ELSE Append(out_lines, ext)
           /\ i' = IF take THEN i + 2 ELSE i + 1
           /\ log' = Append(log, [kind |-> "section", at |-> i, line |-> lines[i],
                                  out |-> ext, sec |-> sec,
                                  url |-> IF take THEN lines[i + 1] ELSE None,
                                  next |-> IF take THEN i + 2 ELSE i + 1])
    /\ UNCHANGED <<raw, lines, checkVars, pc, pass, first_out>>

RECURSIVE find_url(_, _)
\* while j < len(lines) and lines[j].startswith('#'): j += 1
find_url(ls, j) ==
    IF j <= Len(ls) /\ StartsWithHash(ls[j]) THEN find_url(ls, j + 1) ELSE j

\* A group resolution that forgets the current section.
entry_group_no_section(attrs, cur) == Or(get(attrs, GROUP_TITLE), <<"DEFAULT">>)

\* group = attrs.get('group-title') or current_group or 'DEFAULT'
entry_group(attrs, cur) == Or(get(attrs, GROUP_TITLE), Or(cur, <<"DEFAULT">>))

\* The attributes of an ordinary entry before build_extinf.
fill_entry(attrs, title, url, cur) ==
    LET group == entry_group(attrs, cur)
        a1 == setdefault(attrs, GROUP_TITLE, group)
        name == Or(get(a1, TVG_NAME), Or(title, Or(url, <<>>)))
        a2 == setdefault(a1, TVG_NAME, name)
        a3 == setdefault(a2, TVG_ID, sanitize_id(get(a2, TVG_NAME)))
    IN  IF ~Truthy(get(a3, TVG_LOGO))
        THEN setitem(a3, TVG_LOGO, logo_for(Upper(group)))
        ELSE a3

\* An entry branch that stays on the entry when it found no URL.
entry_next_stuck(idx, j, url) == IF Truthy(url) THEN j + 1 ELSE idx

\* The index after an ordinary entry whose scan for a URL stopped at j.
entry_next(idx, j, url) == IF Truthy(url) THEN j + 1 ELSE j

\* not a section header: treat as entry
Entry ==
    /\ pc = "loop" /\ i <= Len(lines)
    /\ ~is_header(lines[i]) /\ is_extinf(lines[i])
    /\ LET parsed == parse_extinf_attrs(lines[i])
           sec    == detect_section_from_extinf(lines[i])
           j      == find_url(lines, i + 1)
           url    == IF j <= Len(lines) THEN lines[j] ELSE None
           attrs  == fill_entry(parsed.attrs, parsed.title, url, current_group)
           ext    == build_extinf(attrs, get(attrs, TVG_NAME))
       IN  /\ ~Truthy(sec)
           /\ out_lines' = IF Truthy(url) THEN out_lines \o <<ext, url>>
                           ELSE Append(out_lines, ext)
           /\ i' = entry_next(i, j, url)
           /\ log' = Append(log, [kind |-> "entry", at |-> i, line |-> lines[i],
                                  out |-> ext, sec |-> None, url |-> url,
                                  next |-> entry_next(i, j, url)])
    /\ UNCHANGED <<raw, lines, current_group, checkVars, pc, pass, first_out>>

\* else: out_lines.append(line); i += 1
Copy ==
    /\ pc = "loop" /\ i <= Len(lines)
    /\ ~is_header(lines[i]) /\ ~is_extinf(lines[i])
    /\ out_lines' = Append(out_lines, lines[i])
    /\ i' = i + 1
    /\ log' = Append(log, [kind |-> "copy", at |-> i, line |-> lines[i],
                           out |-> lines[i], sec |-> None, url |-> None,
                           next |-> i + 1])
    /\ UNCHANGED <<raw, lines, current_group, checkVars, pc, pass, first_out>>

\* The loop ends; out_lines is written to 'cleaned_' + args.file.
WriteOut ==
    /\ pc = "loop" /\ i > Len(lines)
    /\ pc' = "written"
    /\ UNCHANGED <<raw, lines, out_lines, current_group, i, checkVars,
                   pass, first_out, log>>

\* if args.check: the program was started without --check and main() returns.
NoCheck ==
    /\ pc = "written"
    /\ pc' = "done"
    /\ UNCHANGED <<raw, lines, out_lines, current_group, i, checkVars,
                   pass, first_out, log>>

\* Started with --check, but import requests fails: the check is skipped
\* with a message.
ImportFails ==
    /\ pc = "written"
    /\ pc' = "done"
    /\ UNCHANGED <<raw, lines, out_lines, current_group, i, checkVars,
                   pass, first_out, log>>

\* Started with --check: entries = []; k = 0
StartCheck ==
    /\ pc = "written"
    /\ entries' = <<>>
    /\ k' = 1
    /\ pc' = "scan"
    /\ UNCHANGED <<raw, lines, out_lines, current_group, i, n, ok, bad,
                   pass, first_out, log>>

\* The URL the scan pairs with the EXTINF line at idx.
scan_url(ls, idx) ==
    IF idx + 1 <= Len(ls) /\ ~StartsWithHash(ls[idx + 1]) THEN ls[idx + 1] ELSE None

\* The index of the scan after the EXTINF line at idx.
scan_next(ls, idx) == idx + 2

\* One iteration of: while k < len(out_lines)
ScanStep ==
    /\ pc = "scan" /\ k <= Len(out_lines)
    /\ IF is_extinf(out_lines[k])
       THEN /\ entries' = Append(entries, <<out_lines[k], scan_url(out_lines, k)>>)
            /\ k' = scan_next(out_lines, k)
       ELSE /\ k' = k + 1
            /\ UNCHANGED entries
    /\ UNCHANGED <<raw, lines, out_lines, current_group, i, n, ok, bad,
                   pc, pass, first_out, log>>

\* ok = 0; bad = []
ScanEnd ==
    /\ pc = "scan" /\ k > Len(out_lines)
    /\ ok' = 0
    /\ bad' = <<>>
    /\ n' = 1
    /\ pc' = "probe"
    /\ UNCHANGED <<raw, lines, out_lines, current_group, i, entries, k,
                   pass, first_out, log>>

\* if not url: bad.append((ext, '<missing>'))
ProbeMissing ==
    /\ pc = "probe" /\ n <= Len(entries)
    /\ ~Truthy(entries[n][2])
    /\ bad' = Append(bad, <<entries[n][1], "<missing>">>)
    /\ n' = n + 1
    /\ UNCHANGED <<raw, lines, out_lines, current_group, i, entries, k,
                   ok, pc, pass, first_out, log>>

\* What requests.head and requests.get can come to: a final status below
\* 400, a final status of 400 or more, or an exception.
ProbeResults == {"ok", "HTTP 404", "error"}

\* requests.head(url), then requests.get(url) on a status of 400 or more.
Probe ==
    /\ pc = "probe" /\ n <= Len(entries)
    /\ Truthy(entries[n][2])
    /\ \E r \in ProbeResults :
          IF r = "ok"
          THEN ok' = ok + 1 /\ UNCHANGED bad
          ELSE bad' = Append(bad, <<entries[n][1], r>>) /\ UNCHANGED ok
    /\ n' = n + 1
    /\ UNCHANGED <<raw, lines, out_lines, current_group, i, entries, k,
                   pc, pass, first_out, log>>

\* print(f'OK: {ok}/{len(entries)}') and the list of bad entries.
Report ==
    /\ pc = "probe" /\ n > Len(entries)
    /\ pc' = "done"
    /\ UNCHANGED <<raw, lines, out_lines, current_group, i, checkVars,
                   pass, first_out, log>>

\* The file written by the first run, as f.readlines() returns it.
written_file(ls) == [p \in DOMAIN ls |-> ls[p] \o EOL]

\* The program is run again, on the file the first run wrote.
Rerun ==
    /\ pc = "done" /\ pass = 1
    /\ raw' = written_file(out_lines)
    /\ first_out' = out_lines
    /\ pass' = 2
    /\ pc' = "read"
    /\ lines' = <<>>
    /\ out_lines' = <<>>
    /\ current_group' = None
    /\ i' = 1
    /\ entries' = <<>>
    /\ k' = 1
    /\ n' = 1
    /\ ok' = 0
    /\ bad' = <<>>
    /\ log' = <<>>

Next ==
    \/ ReadFile
    \/ Normalize
    \/ Header
    \/ Section
    \/ Entry
    \/ Copy
    \/ WriteOut
    \/ NoCheck
    \/ ImportFails
    \/ StartCheck
    \/ ScanStep
    \/ ScanEnd
    \/ ProbeMissing
    \/ Probe
    \/ Report
    \/ Rerun

Spec == Init /\ [][Next]_vars

----------------------------------------------------------------------------
\* Vocabulary of the properties.

Recs == { log[p] : p \in DOMAIN log }

\* Records of the metadata lines the rewrite loop has processed.
MetaRecs == { r \in Recs : r.kind \in {"section", "entry"} }

\* Positions at which line carries key="...
AttrAt(line, key) ==
    { p \in 1..(Len(line) - Len(key) - 1) :
        SubSeq(line, p, p + Len(key) + 1) = key \o <<"=", "\"">> }

\* The value of the first key="value" of line; None when there is none.
AttrValue(line, key) ==
    IF AttrAt(line, key) = {} THEN None
    ELSE LET p == CHOOSE x \in AttrAt(line, key) : \A y \in AttrAt(line, key) : x <= y
             q == IndexFrom(line, p + Len(key) + 2, {"\""})
         IN  IF q = 0 THEN None ELSE SubSeq(line, p + Len(key) + 2, q - 1)

FourKeys == {TVG_ID, TVG_NAME, TVG_LOGO, GROUP_TITLE}

RECURSIVE SelectExtinf(_)
\* The metadata lines of a line sequence, in order.
SelectExtinf(ls) ==
    IF ls = <<>> THEN <<>>
    ELSE (IF is_extinf(ls[1]) THEN <<ls[1]>> ELSE <<>>) \o SelectExtinf(Tail(ls))

\* Category of the last section marker among the first m records of log.
LastSection(m) ==
    LET S == { p \in 1..m : log[p].kind = "section" }
    IN  IF S = {} THEN None
        ELSE log[CHOOSE p \in S : \A q \in S : q <= p].sec

----------------------------------------------------------------------------
\* C1: every metadata line the rewrite loop emits, for a section marker or
\* for an ordinary entry, carries tvg-id, tvg-name, tvg-logo and group-title,
\* each with a non-empty value.
C1_AllFourAttributes ==
    \A r \in MetaRecs : \A key \in FourKeys : Truthy(AttrValue(r.out, key))

\* C2: the run on the file written by a first run writes the same lines as
\* the first run did.
C2_Idempotent ==
    (pass = 2 /\ pc = "written") => out_lines = first_out

\* C3: after a section marker current_group is its category; an ordinary
\* entry without a group-title attribute is emitted with the category of the
\* last section marker processed before it, and with DEFAULT when there was
\* none.
C3_GroupFromSection ==
    /\ pc \notin {"open", "read"} => current_group = LastSection(Len(log))
    /\ \A m \in DOMAIN log :
         (log[m].kind = "entry" /\ AttrAt(log[m].line, GROUP_TITLE) = {})
         => AttrValue(log[m].out, GROUP_TITLE)
              = IF LastSection(m) = None THEN <<"DEFAULT">> ELSE LastSection(m)

C3_Witness ==
    \E m \in DOMAIN log :
       /\ log[m].kind = "entry"
       /\ AttrAt(log[m].line, GROUP_TITLE) = {}
       /\ LastSection(m) = <<"BELGESEL">>
       /\ \E q \in 1..(m - 1) : log[q].kind = "section" /\ log[q].sec # <<"BELGESEL">>

\* C4: an ordinary entry whose metadata line carries a non-empty
\* group-title attribute is emitted with that value as its group-title.
C4_ExistingGroupWins ==
    \A r \in Recs :
       (r.kind = "entry" /\ Truthy(AttrValue(r.line, GROUP_TITLE)))
       => AttrValue(r.out, GROUP_TITLE) = AttrValue(r.line, GROUP_TITLE)

\* C5: the output of normalize_lines has no two consecutive blank lines and
\* no blank last line, and is empty for an empty input.
C5_NoBlankRuns ==
    pc \notin {"open", "read"} =>
       /\ \A p \in 1..(Len(lines) - 1) :
             ~(Strip(lines[p]) = <<>> /\ Strip(lines[p + 1]) = <<>>)
       /\ Len(lines) > 0 => Strip(lines[Len(lines)]) # <<>>
       /\ raw = <<>> => lines = <<>>

C5_Witness ==
    /\ pc = "loop"
    /\ Len(raw) >= 3
    /\ Strip(raw[Len(raw)]) = <<>>
    /\ Strip(raw[Len(raw) - 1]) = <<>>
    /\ Len(lines) > 0

\* The categories in the order the classifier is to try them.
CategoryOrder ==
    << <<"S[I.]NEMALAR">>, <<"BELGESEL">>, <<"YEDEK">>, <<"7/24">>, <<"F[I.]LMLER">> >>

\* Whether the pattern listed for category c matches title.
CategoryMatches(c, title) ==
    \E x \in DOMAIN SECTION_KEYWORDS :
       SECTION_KEYWORDS[x].key = c /\ rx_search(SECTION_KEYWORDS[x].rx, title)

\* Positions of CategoryOrder whose pattern matches the title of line.
Matching(line) ==
    LET title == IF EXTINF_RE_title(line) = None THEN <<>>
                 ELSE Strip(EXTINF_RE_title(line))
    IN  { x \in DOMAIN CategoryOrder : CategoryMatches(CategoryOrder[x], title) }

\* C6: a metadata line is classified as the category of the first entry of
\* the ordered keyword list whose pattern matches its title, and as no
\* section when no pattern matches.
C6_FirstMatchWins ==
    \A r \in MetaRecs :
       LET M == Matching(r.line)
       IN  IF M = {}
           THEN r.kind = "entry" /\ r.sec = None
           ELSE /\ r.kind = "section"
                /\ r.sec = CategoryOrder[CHOOSE x \in M : \A y \in M : x <= y]

C6_Witness ==
    \E r \in MetaRecs :
       /\ Cardinality(Matching(r.line)) >= 2
       /\ r.sec = <<"BELGESEL">>

\* C7: every iteration of the rewrite loop, whatever its branch, moves i
\* forward by at least one line and to no more than one past the last line,
\* and the loop is left as soon as i is past the last line; the distance
\* Len(lines) + 1 - i falls with every iteration, so the loop ends.
C7_LoopTerminates ==
    [][pc = "loop" =>
         IF i <= Len(lines)
         THEN pc' = "loop" /\ lines' = lines /\ i' > i /\ i' <= Len(lines) + 1
         ELSE pc' = "written"]_vars

C7_Witness ==
    /\ pc = "written"
    /\ \E r \in Recs : r.kind = "entry" /\ r.url = None
    /\ \E r \in Recs : r.kind = "section"
    /\ \E r \in Recs : r.kind = "copy"

C10_OneEntryPerExtinf ==
    pc = "probe" =>
       /\ [p \in DOMAIN entries |-> entries[p][1]] = SelectExtinf(out_lines)
       /\ \A p \in 1..(n - 1) :
             ~Truthy(entries[p][2])
             => \E b \in DOMAIN bad : bad[b] = <<entries[p][1], "<missing>">>
       /\ ok + Len(bad) = n - 1

====
